---- MODULE Spec2Model ----
(***************************************************************************)
(* scripts/generate_pdf.py: markdown -> blocks -> drawables -> PDF.        *)
(*                                                                         *)
(* Text is modelled as a sequence of one-character strings.  The program   *)
(* counter pc follows main(), build_pdf(), parse_markdown() and the render *)
(* loop of build_pdf(); one action per statement group / loop branch.      *)
(* The cursor i of parse_markdown is kept 0-based as in the source, so the *)
(* source's lines[i] is lines[i + 1] here.                                 *)
(***************************************************************************)
EXTENDS Integers, Sequences, FiniteSets, TLC

VARIABLES
    pc,             \* position in main / build_pdf / parse_markdown
    argc,           \* len(sys.argv)
    input_exists,   \* input_path.exists()
    fonts_present,  \* how many of the three font files can be loaded, in order
    dir_created,    \* output_path.parent.mkdir(...) has run
    font_registry,  \* pdfmetrics' process-wide table of registered font names
    register_calls, \* number of calls of register_fonts()
    read_calls,     \* number of calls of input_path.read_text()
    md_text,        \* result of input_path.read_text()
    lines, i, in_code, code_buf, blocks,   \* locals of parse_markdown
    src,            \* history: src[n] = the indices (1-based) of the lines whose text blocks[n] holds
    buf_src,        \* history: the indices of the lines held in code_buf
    iterations,     \* history: how many times the body of the while loop has run
    story, bi,      \* build_pdf: the drawable list and the index of the for loop
    build_calls,    \* number of calls of doc.build(), which writes the output file
    stdout,         \* the lines printed so far
    ret             \* <<>> until main returns, then <<its return value>>

vars == <<pc, argc, input_exists, fonts_present, dir_created, font_registry,
          register_calls, read_calls, md_text, lines, i, in_code, code_buf,
          blocks, src, buf_src, iterations, story, bi, build_calls, stdout,
          ret>>

(***************************************************************************)
(* Bounds of the model.                                                    *)
(***************************************************************************)
MaxLines == 4
MaxArgc == 4

(***************************************************************************)
(* Characters and the str methods the program uses.                        *)
(***************************************************************************)
NL == "\n"
Whitespace == {" ", "\t", NL}
Digits == {"0", "1", "2"}

RECURSIVE lstrip(_)
lstrip(s) ==
    IF s = <<>> THEN <<>>
    ELSE IF Head(s) \in Whitespace THEN lstrip(Tail(s)) ELSE s

RECURSIVE rstrip(_)
rstrip(s) ==
    IF s = <<>> THEN <<>>
    ELSE IF s[Len(s)] \in Whitespace THEN rstrip(SubSeq(s, 1, Len(s) - 1)) ELSE s

strip(s) == lstrip(rstrip(s))

startswith(s, prefix) ==
    /\ Len(s) >= Len(prefix)
    /\ SubSeq(s, 1, Len(prefix)) = prefix

\* sep.join(parts)
RECURSIVE join(_, _)
join(sep, parts) ==
    IF parts = <<>> THEN <<>>
    ELSE IF Len(parts) = 1 THEN parts[1]
    ELSE parts[1] \o sep \o join(sep, Tail(parts))

\* str.splitlines(): a line ends at each line break; a final line without a
\* break is kept, and no empty line is produced after a trailing break.
RECURSIVE splitlines_from(_, _)
splitlines_from(s, cur) ==
    IF s = <<>> THEN (IF cur = <<>> THEN <<>> ELSE <<cur>>)
    ELSE IF Head(s) = NL THEN <<cur>> \o splitlines_from(Tail(s), <<>>)
    ELSE splitlines_from(Tail(s), Append(cur, Head(s)))

splitlines(s) == splitlines_from(s, <<>>)

\* number of consecutive characters of s, from position k on, that are in S
RECURSIVE span(_, _, _)
span(s, k, S) ==
    IF k > Len(s) THEN 0
    ELSE IF s[k] \in S THEN 1 + span(s, k + 1, S) ELSE 0

(***************************************************************************)
(* The line tests of parse_markdown.                                       *)
(***************************************************************************)
\* The backquote character (a string of this notation cannot hold it).
BACKTICK == "BACKTICK"
FENCE == <<BACKTICK, BACKTICK, BACKTICK>>

\* is_fence without the strip(): an indented fence line is missed
is_fence_unstripped(line) == startswith(line, FENCE)

\* line.strip().startswith(FENCE)
is_fence(line) == startswith(strip(line), FENCE)

\* not line.strip()
is_blank(line) == strip(line) = <<>>

\* re_separator for "^--+$": two hyphens are enough
re_separator_two(s) ==
    LET body == IF s # <<>> /\ s[Len(s)] = NL THEN SubSeq(s, 1, Len(s) - 1) ELSE s
    IN  /\ Len(body) >= 2
        /\ span(body, 1, {"-"}) = Len(body)

\* re.match(r"^---+$", s): "--", then one or more "-", up to the end of s
\* ($ also matches before one final line break)
re_separator(s) ==
    LET body == IF s # <<>> /\ s[Len(s)] = NL THEN SubSeq(s, 1, Len(s) - 1) ELSE s
    IN  /\ Len(body) >= 3
        /\ span(body, 1, {"-"}) = Len(body)

\* re_heading_prefix for "^(#{1,6})": the whitespace after the '#' is not required
re_heading_prefix_loose(line) ==
    LET hashes == span(line, 1, {"#"})
    IN  IF hashes > 6 THEN 6 ELSE hashes

\* re.match(r"^(#{1,6})\s+", line): the length of group 1, or 0 for no match.
\* The greedy #{1,6} takes up to six '#'; backing off to fewer leaves a '#'
\* where \s is required, so only the full run can match.
re_heading_prefix(line) ==
    LET hashes == span(line, 1, {"#"})
        taken  == IF hashes > 6 THEN 6 ELSE hashes
    IN  IF taken >= 1 /\ span(line, taken + 1, Whitespace) >= 1 THEN taken ELSE 0

\* re_heading for "^(#{1,7})\s+(.*)$": seven '#' are accepted
re_heading_seven(line) ==
    LET hashes == span(line, 1, {"#"})
        taken  == IF hashes > 7 THEN 7 ELSE hashes
        ws     == span(line, taken + 1, Whitespace)
        rest   == SubSeq(line, taken + ws + 1, Len(line))
    IN  IF taken >= 1 /\ ws >= 1 /\ \A k \in 1..Len(rest) : rest[k] # NL
        THEN <<taken, rest>>
        ELSE <<0, <<>>>>

\* re.match(r"^(#{1,6})\s+(.*)$", line): <<len(group 1), group 2>>, or <<0, <<>>>>
\* for no match.  \s+ is greedy, and '.' matches anything but a line break.
re_heading(line) ==
    LET hashes == span(line, 1, {"#"})
        taken  == IF hashes > 6 THEN 6 ELSE hashes
        ws     == span(line, taken + 1, Whitespace)
        rest   == SubSeq(line, taken + ws + 1, Len(line))
    IN  IF taken >= 1 /\ ws >= 1 /\ \A k \in 1..Len(rest) : rest[k] # NL
        THEN <<taken, rest>>
        ELSE <<0, <<>>>>

\* re.match(r"^\s*(?:[-*]|\d+\.)\s+", line): the length of the match, 0 for none
re_list_marker(line) ==
    LET lead   == span(line, 1, Whitespace)
        p      == lead + 1
        digits == span(line, p, Digits)
        marker == IF p <= Len(line) /\ line[p] \in {"-", "*"} THEN 1
                  ELSE IF digits >= 1 /\ p + digits <= Len(line) /\ line[p + digits] = "."
                       THEN digits + 1
                  ELSE 0
        trail  == IF marker = 0 THEN 0 ELSE span(line, p + marker, Whitespace)
    IN  IF marker > 0 /\ trail > 0 THEN lead + marker + trail ELSE 0

\* list_item without the rstrip()
list_item_unstripped(line) == SubSeq(line, re_list_marker(line) + 1, Len(line))

\* re.sub(r"^\s*(?:[-*]|\d+\.)\s+", "", line).rstrip()
list_item(line) == rstrip(SubSeq(line, re_list_marker(line) + 1, Len(line)))

(***************************************************************************)
(* parse_markdown: the locals as a record, one operator per branch of the  *)
(* while loop.                                                             *)
(***************************************************************************)
parse_locals ==
    [i |-> i, in_code |-> in_code, code_buf |-> code_buf, blocks |-> blocks,
     src |-> src, buf_src |-> buf_src]

\* lines 36-39
parse_init ==
    [i |-> 0, in_code |-> FALSE, code_buf |-> <<>>, blocks |-> <<>>,
     src |-> <<>>, buf_src |-> {}]

\* the if-chain of lines 44, 54, 59, 63, 69, 76, 85: which branch takes the line
which_branch(line, inside) ==
    IF is_fence(line) THEN "fence"
    ELSE IF inside THEN "code"
    ELSE IF is_blank(line) THEN "blank"
    ELSE IF re_separator(strip(line)) THEN "separator"
    ELSE IF re_heading(line)[1] > 0 THEN "heading"
    ELSE IF re_list_marker(line) > 0 THEN "list"
    ELSE "para"

\* lines 45-52
fence_branch(L, st) ==
    IF st.in_code
    THEN [st EXCEPT !.blocks = Append(@, <<"code", rstrip(join(<<NL>>, st.code_buf))>>),
                    !.src = Append(@, st.buf_src),
                    !.code_buf = <<>>,
                    !.buf_src = {},
                    !.in_code = FALSE,
                    !.i = @ + 1]
    ELSE [st EXCEPT !.in_code = TRUE, !.i = @ + 1]

\* lines 55-57
code_branch(L, st) ==
    [st EXCEPT !.code_buf = Append(@, L[st.i + 1]),
               !.buf_src = @ \cup {st.i + 1},
               !.i = @ + 1]

\* blank_branch without the i += 1
blank_branch_stuck(L, st) == st

\* lines 60-61
blank_branch(L, st) == [st EXCEPT !.i = @ + 1]

\* lines 64-66
separator_branch(L, st) ==
    [st EXCEPT !.blocks = Append(@, <<"separator", <<>>>>),
               !.src = Append(@, {st.i + 1}),
               !.i = @ + 1]

\* lines 70-74
heading_branch(L, st) ==
    LET heading == re_heading(L[st.i + 1])
        level   == heading[1]
        text    == strip(heading[2])
    IN  [st EXCEPT !.blocks = Append(@, <<"heading", level, text>>),
                   !.src = Append(@, {st.i + 1}),
                   !.i = @ + 1]

\* the while loop of lines 78-81: <<items, i>> when it ends
RECURSIVE list_loop(_, _, _)
list_loop(L, j, items) ==
    IF j < Len(L) /\ re_list_marker(L[j + 1]) > 0
    THEN list_loop(L, j + 1, Append(items, list_item(L[j + 1])))
    ELSE <<items, j>>

\* lines 77-83
list_branch(L, st) ==
    LET done == list_loop(L, st.i, <<>>)
    IN  [st EXCEPT !.blocks = Append(@, <<"list", done[1]>>),
                   !.src = Append(@, (st.i + 1)..done[2]),
                   !.i = done[2]]

\* the tests of lines 89-98 that end a paragraph
ends_paragraph(next_line) ==
    \/ is_blank(next_line)
    \/ is_fence(next_line)
    \/ re_heading_prefix(next_line) > 0
    \/ re_list_marker(next_line) > 0
    \/ re_separator(strip(next_line))

\* the while loop of lines 87-100: <<para_lines, i>> when it ends
RECURSIVE para_loop(_, _, _)
para_loop(L, j, para_lines) ==
    IF j < Len(L) /\ ~ends_paragraph(L[j + 1])
    THEN para_loop(L, j + 1, Append(para_lines, strip(L[j + 1])))
    ELSE <<para_lines, j>>

\* lines 85-101
para_branch(L, st) ==
    LET done == para_loop(L, st.i + 1, <<strip(L[st.i + 1])>>)
    IN  [st EXCEPT !.blocks = Append(@, <<"para", strip(join(<<" ">>, done[1]))>>),
                   !.src = Append(@, (st.i + 1)..done[2]),
                   !.i = done[2]]

\* one iteration of the while loop, lines 42-101
loop_body(L, st) ==
    LET branch == which_branch(L[st.i + 1], st.in_code)
    IN  CASE branch = "fence"     -> fence_branch(L, st)
          [] branch = "code"      -> code_branch(L, st)
          [] branch = "blank"     -> blank_branch(L, st)
          [] branch = "separator" -> separator_branch(L, st)
          [] branch = "heading"   -> heading_branch(L, st)
          [] branch = "list"      -> list_branch(L, st)
          [] branch = "para"      -> para_branch(L, st)

\* the while loop, lines 41-103, as a function of the line list: the locals
\* when it ends
RECURSIVE parse_loop(_, _)
parse_loop(L, st) ==
    IF st.i < Len(L) THEN parse_loop(L, loop_body(L, st)) ELSE st

(***************************************************************************)
(* build_pdf: what each kind of block adds to story.                       *)
(***************************************************************************)
BULLET == "BULLET"

\* xml.sax.saxutils.escape
RECURSIVE escape(_)
escape(s) ==
    IF s = <<>> THEN <<>>
    ELSE (CASE Head(s) = "&" -> <<"&", "a", "m", "p", ";">>
            [] Head(s) = "<" -> <<"&", "l", "t", ";">>
            [] Head(s) = ">" -> <<"&", "g", "t", ";">>
            [] OTHER -> <<Head(s)>>) \o escape(Tail(s))

\* .replace(BACKTICK, "")
drop_backticks(s) == SelectSeq(s, LAMBDA c : c # BACKTICK)

\* line 172
heading_style(level) ==
    IF level = 1 THEN "H1RU" ELSE IF level = 2 THEN "H2RU" ELSE "H3RU"

\* lines 171-173
render_heading(block) ==
    << <<"Paragraph", escape(block[3]), heading_style(block[2])>> >>

\* lines 177-179
render_para(block) ==
    << <<"Paragraph", drop_backticks(escape(block[2])), "BodyRU">> >>

\* lines 183-187
render_list(block) ==
    [k \in 1..Len(block[2]) |->
        <<"Paragraph", <<BULLET, " ">> \o drop_backticks(escape(block[2][k])), "BodyRU">>]
    \o << <<"Spacer", 1, 2>> >>

\* render_code without the test for empty content
render_code_always(block) == << <<"Preformatted", block[2], "CodeRU">> >>

\* lines 191-193
render_code(block) ==
    IF block[2] # <<>> THEN << <<"Preformatted", block[2], "CodeRU">> >> ELSE <<>>

\* line 197
render_separator(block) == << <<"Spacer", 1, 8>> >>

(***************************************************************************)
(* The input files the model reads: every sequence of at most MaxLines     *)
(* lines drawn from one of the pools below, joined by line breaks.         *)
(***************************************************************************)
PoolFence ==
    { FENCE,
      <<" ">> \o FENCE \o <<"p", " ">>,
      <<>>,
      <<BACKTICK, "a", " ">>,
      <<"-", " ", "b">>,
      <<"#", " ", "T">> }

PoolList ==
    { <<"-", " ", "a", " ">>,
      <<"*", " ", " ", "b">>,
      <<" ", "1", "2", ".", " ", "c">>,
      <<"-", "a">>,
      <<>>,
      <<"x">> }

PoolPara ==
    { <<"a", "&">>,
      <<" ", "b", "\t">>,
      <<"-", "-">>,
      <<" ">>,
      <<"#", " ", "T">>,
      <<"-", "-", "-">> }

PoolHeading ==
    { <<"#", " ", "T", " ">>,
      <<"#", "#", "#", "#", "#", "#", " ", "D">>,
      <<"#", "#", "#", "#", "#", "#", "#", " ", "x">>,
      <<"#", "a">>,
      <<" ", "#", " ", "b">>,
      <<"#", "#", "\t">> }

PoolSeparator ==
    { <<"-", "-", "-">>,
      <<" ", "-", "-", "-", "-", "\t">>,
      <<"-", "-">>,
      <<"-", "-", "-", " ", "a">>,
      <<"-", " ", "-">>,
      <<"1", ".", "a">> }

Pools == {PoolFence, PoolList, PoolPara, PoolHeading, PoolSeparator}

Inputs == UNION {[1..n -> pool] : n \in 0..MaxLines, pool \in Pools}

(***************************************************************************)
(* The program.                                                            *)
(***************************************************************************)
FONTS == <<"LiberationSans", "LiberationSans-Bold", "LiberationMono">>

env_vars == <<argc, input_exists, fonts_present>>
font_vars == <<font_registry, register_calls>>
parse_vars == <<lines, i, in_code, code_buf, blocks, src, buf_src, iterations>>
render_vars == <<story, bi>>

Init ==
    /\ pc = "main"
    /\ argc \in 1..MaxArgc
    /\ input_exists \in BOOLEAN
    /\ fonts_present \in 0..3
    /\ dir_created = FALSE
    /\ font_registry = {}
    /\ register_calls = 0
    /\ read_calls = 0
    /\ md_text = <<>>
    /\ lines = <<>>
    /\ i = 0
    /\ in_code = FALSE
    /\ code_buf = <<>>
    /\ blocks = <<>>
    /\ src = <<>>
    /\ buf_src = {}
    /\ iterations = 0
    /\ story = <<>>
    /\ bi = 0
    /\ build_calls = 0
    /\ stdout = <<>>
    /\ ret = <<>>

\* main, lines 214-216
UsageError ==
    /\ pc = "main"
    /\ argc # 3
    /\ stdout' = Append(stdout, "Usage")
    /\ ret' = <<2>>
    /\ pc' = "exit"
    /\ UNCHANGED <<env_vars, dir_created, read_calls, font_vars, md_text, parse_vars,
                   render_vars, build_calls>>

\* InputNotFound with the output directory created before the test
InputNotFoundLate ==
    /\ pc = "main"
    /\ argc = 3
    /\ ~input_exists
    /\ dir_created' = TRUE
    /\ stdout' = Append(stdout, "Input not found")
    /\ ret' = <<1>>
    /\ pc' = "exit"
    /\ UNCHANGED <<env_vars, read_calls, font_vars, md_text, parse_vars,
                   render_vars, build_calls>>

\* main, lines 221-223
InputNotFound ==
    /\ pc = "main"
    /\ argc = 3
    /\ ~input_exists
    /\ stdout' = Append(stdout, "Input not found")
    /\ ret' = <<1>>
    /\ pc' = "exit"
    /\ UNCHANGED <<env_vars, dir_created, read_calls, font_vars, md_text, parse_vars,
                   render_vars, build_calls>>

\* main, lines 225-226: create the output directory and call build_pdf
MakeOutputDir ==
    /\ pc = "main"
    /\ argc = 3
    /\ input_exists
    /\ dir_created' = TRUE
    /\ pc' = "build_pdf"
    /\ UNCHANGED <<env_vars, read_calls, font_vars, md_text, parse_vars, render_vars,
                   build_calls, stdout, ret>>

\* register_fonts, lines 22-31, called at line 114, all three files load
RegisterFonts ==
    /\ pc = "build_pdf"
    /\ fonts_present = 3
    /\ register_calls' = register_calls + 1
    /\ font_registry' = font_registry \cup {FONTS[k] : k \in 1..3}
    /\ pc' = "read"
    /\ UNCHANGED <<env_vars, dir_created, read_calls, md_text, parse_vars, render_vars,
                   build_calls, stdout, ret>>

\* RegisterFontsFail with the exception swallowed: build_pdf goes on
RegisterFontsFailSwallowed ==
    /\ pc = "build_pdf"
    /\ fonts_present < 3
    /\ register_calls' = register_calls + 1
    /\ font_registry' = font_registry \cup {FONTS[k] : k \in 1..fonts_present}
    /\ pc' = "read"
    /\ UNCHANGED <<env_vars, dir_created, read_calls, md_text, parse_vars, render_vars,
                   build_calls, stdout, ret>>

\* register_fonts when a font file cannot be loaded: TTFont raises, the
\* fonts before it stay registered, and nothing catches the exception
RegisterFontsFail ==
    /\ pc = "build_pdf"
    /\ fonts_present < 3
    /\ register_calls' = register_calls + 1
    /\ font_registry' = font_registry \cup {FONTS[k] : k \in 1..fonts_present}
    /\ pc' = "raised"
    /\ UNCHANGED <<env_vars, dir_created, read_calls, md_text, parse_vars, render_vars,
                   build_calls, stdout, ret>>

\* build_pdf, line 163
ReadInput ==
    /\ pc = "read"
    /\ read_calls' = read_calls + 1
    /\ \E file \in Inputs : md_text' = join(<<NL>>, file)
    /\ pc' = "parse_enter"
    /\ UNCHANGED <<env_vars, dir_created, font_vars, parse_vars, render_vars,
                   build_calls, stdout, ret>>

\* build_pdf, line 163, when read_text raises (unreadable or not UTF-8)
ReadFail ==
    /\ pc = "read"
    /\ read_calls' = read_calls + 1
    /\ pc' = "raised"
    /\ UNCHANGED <<env_vars, dir_created, font_vars, md_text, parse_vars,
                   render_vars, build_calls, stdout, ret>>

SetLocals(st) ==
    /\ i' = st.i
    /\ in_code' = st.in_code
    /\ code_buf' = st.code_buf
    /\ blocks' = st.blocks
    /\ src' = st.src
    /\ buf_src' = st.buf_src

\* line 164 and parse_markdown, lines 35-39
ParseEnter ==
    /\ pc = "parse_enter"
    /\ lines' = splitlines(md_text)
    /\ SetLocals(parse_init)
    /\ iterations' = 0
    /\ pc' = "parse"
    /\ UNCHANGED <<env_vars, dir_created, read_calls, font_vars, md_text, render_vars,
                   build_calls, stdout, ret>>

\* lines 41-42 and the if-chain: the loop runs and the line takes this branch
ParseAt(branch) ==
    /\ pc = "parse"
    /\ i < Len(lines)
    /\ which_branch(lines[i + 1], in_code) = branch

ParseStay ==
    /\ iterations' = iterations + 1
    /\ UNCHANGED <<pc, env_vars, dir_created, read_calls, font_vars, md_text, lines,
                render_vars, build_calls, stdout, ret>>

\* lines 44-52
FenceLine == ParseAt("fence") /\ SetLocals(fence_branch(lines, parse_locals)) /\ ParseStay

\* lines 54-57
CodeLine == ParseAt("code") /\ SetLocals(code_branch(lines, parse_locals)) /\ ParseStay

\* lines 59-61
BlankLine == ParseAt("blank") /\ SetLocals(blank_branch(lines, parse_locals)) /\ ParseStay

\* lines 63-66
SeparatorLine ==
    ParseAt("separator") /\ SetLocals(separator_branch(lines, parse_locals)) /\ ParseStay

\* lines 68-74
HeadingLine == ParseAt("heading") /\ SetLocals(heading_branch(lines, parse_locals)) /\ ParseStay

\* lines 76-83
ListRun == ParseAt("list") /\ SetLocals(list_branch(lines, parse_locals)) /\ ParseStay

\* lines 85-101
ParagraphRun == ParseAt("para") /\ SetLocals(para_branch(lines, parse_locals)) /\ ParseStay

\* ParseReturn that first turns a pending code buffer into a code block
ParseReturnFlush ==
    /\ pc = "parse"
    /\ ~(i < Len(lines))
    /\ blocks' = IF in_code
                 THEN Append(blocks, <<"code", rstrip(join(<<NL>>, code_buf))>>)
                 ELSE blocks
    /\ src' = IF in_code THEN Append(src, buf_src) ELSE src
    /\ story' = <<>>
    /\ bi' = 0
    /\ pc' = "render"
    /\ UNCHANGED <<env_vars, dir_created, read_calls, font_vars, md_text, lines,
                   i, in_code, code_buf, buf_src, iterations, build_calls, stdout,
                   ret>>

\* lines 41 and 103, then build_pdf line 166
ParseReturn ==
    /\ pc = "parse"
    /\ ~(i < Len(lines))
    /\ story' = <<>>
    /\ bi' = 0
    /\ pc' = "render"
    /\ UNCHANGED <<env_vars, dir_created, read_calls, font_vars, md_text, parse_vars,
                   build_calls, stdout, ret>>

\* lines 167-168: the for loop is at a block of this kind
RenderAt(kind) ==
    /\ pc = "render"
    /\ bi < Len(blocks)
    /\ blocks[bi + 1][1] = kind

RenderAdd(elements) ==
    /\ story' = story \o elements
    /\ bi' = bi + 1
    /\ UNCHANGED <<pc, env_vars, dir_created, read_calls, font_vars, md_text, parse_vars,
                   build_calls, stdout, ret>>

\* lines 170-174
RenderHeading == RenderAt("heading") /\ RenderAdd(render_heading(blocks[bi + 1]))

\* lines 176-180
RenderPara == RenderAt("para") /\ RenderAdd(render_para(blocks[bi + 1]))

\* lines 182-188
RenderList == RenderAt("list") /\ RenderAdd(render_list(blocks[bi + 1]))

\* lines 190-194
RenderCode == RenderAt("code") /\ RenderAdd(render_code(blocks[bi + 1]))

\* lines 196-198
RenderSeparator == RenderAt("separator") /\ RenderAdd(render_separator(blocks[bi + 1]))

\* lines 200-210: the for loop is over, the document is built and written
DocBuild ==
    /\ pc = "render"
    /\ bi = Len(blocks)
    /\ build_calls' = build_calls + 1
    /\ pc' = "built"
    /\ UNCHANGED <<env_vars, dir_created, read_calls, font_vars, md_text, parse_vars,
                   render_vars, stdout, ret>>

\* main, lines 227-228
PrintGenerated ==
    /\ pc = "built"
    /\ stdout' = Append(stdout, "Generated")
    /\ ret' = <<0>>
    /\ pc' = "exit"
    /\ UNCHANGED <<env_vars, dir_created, read_calls, font_vars, md_text, parse_vars,
                   render_vars, build_calls>>

Next ==
    \/ UsageError
    \/ InputNotFound
    \/ MakeOutputDir
    \/ RegisterFonts
    \/ RegisterFontsFail
    \/ ReadInput
    \/ ReadFail
    \/ ParseEnter
    \/ FenceLine
    \/ CodeLine
    \/ BlankLine
    \/ SeparatorLine
    \/ HeadingLine
    \/ ListRun
    \/ ParagraphRun
    \/ ParseReturn
    \/ RenderHeading
    \/ RenderPara
    \/ RenderList
    \/ RenderCode
    \/ RenderSeparator
    \/ DocBuild
    \/ PrintGenerated

Spec == Init /\ [][Next]_vars

TypeOK ==
    /\ pc \in {"main", "build_pdf", "read", "parse_enter", "parse", "render",
               "built", "exit", "raised"}
    /\ i \in 0..Len(lines)
    /\ Len(src) = Len(blocks)
    /\ bi \in 0..Len(blocks)

(***************************************************************************)
(* Vocabulary of the properties, stated on the line list and independent   *)
(* of the tests above.                                                     *)
(***************************************************************************)
\* parse_markdown has just returned: blocks is its result
Parsed == pc = "render" /\ bi = 0

AllSpace(s) == \A k \in 1..Len(s) : s[k] \in Whitespace

\* s without its trailing whitespace
RightTrimmed(s) ==
    LET keep == CHOOSE n \in 0..Len(s) :
                    /\ \A k \in (n + 1)..Len(s) : s[k] \in Whitespace
                    /\ n > 0 => s[n] \notin Whitespace
    IN  SubSeq(s, 1, keep)

\* s without its leading and trailing whitespace
Trimmed(s) ==
    IF AllSpace(s) THEN <<>>
    ELSE LET first == CHOOSE a \in 1..Len(s) :
                          s[a] \notin Whitespace /\ \A k \in 1..(a - 1) : s[k] \in Whitespace
             last  == CHOOSE b \in 1..Len(s) :
                          s[b] \notin Whitespace /\ \A k \in (b + 1)..Len(s) : s[k] \in Whitespace
         IN  SubSeq(s, first, last)

IsBlankLine(l) == AllSpace(l)

\* the trimmed content starts with three backticks
IsFenceLine(l) ==
    LET t == Trimmed(l)
    IN  Len(t) >= 3 /\ \A k \in 1..3 : t[k] = BACKTICK

\* the trimmed content is three or more hyphens and nothing else
IsSeparatorLine(l) ==
    LET t == Trimmed(l)
    IN  Len(t) >= 3 /\ \A k \in 1..Len(t) : t[k] = "-"

\* l begins with exactly n '#' followed by whitespace
IsHeadingLine(l, n) ==
    /\ n + 1 <= Len(l)
    /\ \A k \in 1..n : l[k] = "#"
    /\ l[n + 1] \in Whitespace

\* <<a, m>>: a leading whitespace characters, then a marker of m characters
\* ('-', '*', or digits and '.'), then whitespace
MarkerSplits(l) ==
    LET starts == {a \in 0..(Len(l) - 1) :
                      /\ \A k \in 1..a : l[k] \in Whitespace
                      /\ l[a + 1] \notin Whitespace}
    IN  {sp \in starts \X (1..Len(l)) :
            LET a == sp[1]
                m == sp[2]
            IN  /\ a + m + 1 <= Len(l)
                /\ \/ m = 1 /\ l[a + 1] \in {"-", "*"}
                   \/ /\ m >= 2
                      /\ \A k \in (a + 1)..(a + m - 1) : l[k] \in Digits
                      /\ l[a + m] = "."
                /\ l[a + m + 1] \in Whitespace}

IsItemLine(l) == MarkerSplits(l) # {}

\* the item line without its marker and the whitespace around the rest
ItemText(l) ==
    LET sp == CHOOSE sp \in MarkerSplits(l) : TRUE
    IN  Trimmed(SubSeq(l, sp[1] + sp[2] + 1, Len(l)))

IsPlainLine(l) ==
    /\ ~IsBlankLine(l)
    /\ ~IsFenceLine(l)
    /\ ~IsSeparatorLine(l)
    /\ ~IsItemLine(l)
    /\ \A n \in 1..6 : ~IsHeadingLine(l, n)

FenceLines == {k \in 1..Len(lines) : IsFenceLine(lines[k])}
FencesBefore(k) == Cardinality({f \in FenceLines : f < k})
NthFence(n) == CHOOSE f \in FenceLines : FencesBefore(f) = n - 1
FencePairs == Cardinality(FenceLines) \div 2

\* for each line: it is not a fence line and an even number of fence lines precede it
OutsideMap ==
    LET fences == FenceLines
    IN  [k \in 1..Len(lines) |->
            k \notin fences /\ Cardinality({f \in fences : f < k}) % 2 = 0]

OutsideFence(k) == OutsideMap[k]

\* the maximal runs <<a, b>> of consecutive lines outside a fence that satisfy Is
MaximalRuns(Is(_)) ==
    LET outside == OutsideMap
        in_run  == [k \in 1..Len(lines) |-> outside[k] /\ Is(lines[k])]
    IN  {r \in (1..Len(lines)) \X (1..Len(lines)) :
            /\ r[1] <= r[2]
            /\ \A k \in r[1]..r[2] : in_run[k]
            /\ r[1] > 1 => ~in_run[r[1] - 1]
            /\ r[2] < Len(lines) => ~in_run[r[2] + 1]}

BlocksOfKind(kind) == {n \in 1..Len(blocks) : blocks[n][1] = kind}
NthOfKind(kind, p) ==
    CHOOSE n \in BlocksOfKind(kind) :
        Cardinality({m \in BlocksOfKind(kind) : m < n}) = p - 1

\* the blocks whose text comes from exactly the lines a..b
BlocksFrom(kind, a, b) == {n \in BlocksOfKind(kind) : src[n] = a..b}

(***************************************************************************)
(* C1: parse_markdown emits exactly one code block per matched pair of     *)
(* fence lines (1st/2nd, 3rd/4th, ...), in source order; its text is the   *)
(* lines strictly between the two fence lines joined by line breaks with   *)
(* trailing whitespace removed; and no fence line is part of the content   *)
(* of any block of any kind.                                               *)
(***************************************************************************)
C1_CodeBlockPerFencePair ==
    Parsed =>
        /\ Cardinality(BlocksOfKind("code")) = FencePairs
        /\ \A p \in 1..FencePairs :
              LET open  == NthFence(2 * p - 1)
                  close == NthFence(2 * p)
                  n     == NthOfKind("code", p)
              IN  /\ src[n] = (open + 1)..(close - 1)
                  /\ blocks[n] =
                        <<"code", RightTrimmed(join(<<NL>>, SubSeq(lines, open + 1, close - 1)))>>
        /\ \A n \in 1..Len(blocks) : src[n] \cap FenceLines = {}

\* a code block of two lines whose trailing whitespace was removed
C1_Witness ==
    /\ Parsed
    /\ \E n \in BlocksOfKind("code") :
          /\ Cardinality(src[n]) = 2
          /\ blocks[n][2] # <<>>
          /\ blocks[n][2] # join(<<NL>>, [k \in 1..2 |-> lines[NthFence(1) + k]])

(***************************************************************************)
(* C2: with an odd number of fence lines parse_markdown returns with       *)
(* in_code still true and no code block for the pending buffer: no line    *)
(* after the last fence line is in any block, and the blocks are those of  *)
(* the input truncated just before that fence line.                        *)
(***************************************************************************)
C2_UnterminatedFence ==
    (Parsed /\ Cardinality(FenceLines) % 2 = 1) =>
        LET last == NthFence(Cardinality(FenceLines))
        IN  /\ in_code = TRUE
            /\ Cardinality(BlocksOfKind("code")) = FencePairs
            /\ \A n \in 1..Len(blocks) : \A k \in src[n] : k < last
            /\ blocks = parse_loop(SubSeq(lines, 1, last - 1), parse_init).blocks

\* an unterminated fence with lines after it and blocks before it
C2_Witness ==
    /\ Parsed
    /\ Cardinality(FenceLines) % 2 = 1
    /\ code_buf # <<>>
    /\ blocks # <<>>
    /\ NthFence(Cardinality(FenceLines)) < Len(lines)

(***************************************************************************)
(* C4: outside a fence every maximal run of consecutive item-marker lines  *)
(* yields exactly one list block, with one item per line of the run in     *)
(* line order, marker removed and trailing whitespace trimmed, bullet and  *)
(* numeric markers mixing; the line that ends the run is not consumed by   *)
(* the list, and a list block never has zero items.                        *)
(***************************************************************************)
ItemsOfRun(a, b) == [k \in 1..(b - a + 1) |-> ItemText(lines[a + k - 1])]

C4_ListResult ==
    Parsed =>
        LET runs == MaximalRuns(IsItemLine)
        IN  /\ \A r \in runs : Cardinality(BlocksFrom("list", r[1], r[2])) = 1
            /\ \A n \in BlocksOfKind("list") :
                  /\ Len(blocks[n][2]) >= 1
                  /\ \E r \in runs :
                        /\ src[n] = r[1]..r[2]
                        /\ blocks[n][2] = ItemsOfRun(r[1], r[2])

\* the list branch leaves the cursor on the line after the run
C4_ListCursor ==
    ListRun =>
        /\ i' > i
        /\ \A k \in (i + 1)..i' : IsItemLine(lines[k])
        /\ i' < Len(lines) => ~IsItemLine(lines[i' + 1])

\* C4: one list block per maximal run of item lines outside a fence, items in
\* line order with marker and trailing whitespace removed, never empty, and
\* the line that ends the run is left to the next iteration
C4_OneListPerRun == [](C4_ListResult) /\ [][C4_ListCursor]_vars

\* a list of three items with the three marker styles, followed by another block
C4_Witness ==
    /\ Parsed
    /\ \E n \in BlocksOfKind("list") :
          /\ Len(blocks[n][2]) = 3
          /\ n < Len(blocks)
          /\ \E k \in src[n] : lines[k][1] = "-"
          /\ \E k \in src[n] : lines[k][1] = "*"
          /\ \E k \in src[n] : "1" \in {lines[k][c] : c \in 1..Len(lines[k])}

(***************************************************************************)
(* C5: outside a fence a paragraph block is exactly a maximal run of       *)
(* consecutive lines that are none of blank, fence, heading, list item,    *)
(* separator; its text is the trimmed lines joined by single spaces and is *)
(* never empty; the line that ends the run is not consumed, the cursor     *)
(* stays on it and the next iteration never takes it as paragraph text.    *)
(***************************************************************************)
TextOfRun(a, b) == join(<<" ">>, [k \in 1..(b - a + 1) |-> Trimmed(lines[a + k - 1])])

C5_ParaResult ==
    Parsed =>
        LET runs == MaximalRuns(IsPlainLine)
        IN  /\ \A r \in runs : Cardinality(BlocksFrom("para", r[1], r[2])) = 1
            /\ \A n \in BlocksOfKind("para") :
                  /\ blocks[n][2] # <<>>
                  /\ \E r \in runs :
                        /\ src[n] = r[1]..r[2]
                        /\ blocks[n][2] = TextOfRun(r[1], r[2])

\* the paragraph branch leaves the cursor on the line that ended the run,
\* and the if-chain then takes that line for another branch
C5_ParaCursor ==
    ParagraphRun =>
        /\ i' > i
        /\ \A k \in (i + 1)..i' : IsPlainLine(lines[k])
        /\ i' < Len(lines) =>
              /\ ~IsPlainLine(lines[i' + 1])
              /\ which_branch(lines[i' + 1], in_code') \in
                    {"blank", "fence", "heading", "list", "separator"}

\* C5: a paragraph block is exactly a maximal run of plain lines outside a
\* fence, its text the trimmed lines joined by single spaces and never empty,
\* and the line that ends the run is never taken as paragraph text
C5_ParagraphIsMaximalRun == [](C5_ParaResult) /\ [][C5_ParaCursor]_vars

\* a paragraph of two or more lines that a structural line ended
C5_Witness ==
    /\ Parsed
    /\ \E n \in BlocksOfKind("para") :
          /\ Cardinality(src[n]) >= 2
          /\ n < Len(blocks)
          /\ blocks[n + 1][1] \in {"heading", "separator"}

(***************************************************************************)
(* C6: outside a fence a line that begins with n '#', 1 <= n <= 6,         *)
(* followed by whitespace yields exactly one heading block of level n with *)
(* the trimmed remainder as text; every heading block has a level in 1..6; *)
(* seven or more '#', or '#' not followed by whitespace, yields none.      *)
(***************************************************************************)
C6_Headings ==
    Parsed =>
        LET outside == OutsideMap IN
        /\ \A k \in 1..Len(lines) : \A n \in 1..6 :
              (outside[k] /\ IsHeadingLine(lines[k], n)) =>
                  /\ Cardinality(BlocksFrom("heading", k, k)) = 1
                  /\ \A b \in BlocksFrom("heading", k, k) :
                        blocks[b] = <<"heading", n,
                                      Trimmed(SubSeq(lines[k], n + 1, Len(lines[k])))>>
        /\ \A b \in BlocksOfKind("heading") :
              /\ blocks[b][2] \in 1..6
              /\ \E k \in 1..Len(lines) :
                    /\ src[b] = {k}
                    /\ outside[k]
                    /\ IsHeadingLine(lines[k], blocks[b][2])

\* a level-6 heading next to a line of seven '#' that made no heading
C6_Witness ==
    /\ Parsed
    /\ \E b \in BlocksOfKind("heading") : blocks[b][2] = 6
    /\ \E k \in 1..Len(lines) :
          /\ OutsideFence(k)
          /\ Len(lines[k]) >= 7
          /\ \A c \in 1..7 : lines[k][c] = "#"

(***************************************************************************)
(* C7: outside a fence a line yields exactly one separator block iff its   *)
(* trimmed content is three or more hyphens and nothing else; the test     *)
(* comes before the heading, list and paragraph rules; a line of exactly   *)
(* two hyphens emits no separator and becomes paragraph text.              *)
(***************************************************************************)
C7_Separators ==
    Parsed =>
        LET outside == OutsideMap IN
        /\ \A k \in 1..Len(lines) :
              outside[k] =>
                  IF IsSeparatorLine(lines[k])
                  THEN /\ Cardinality(BlocksFrom("separator", k, k)) = 1
                       /\ \A n \in 1..Len(blocks) :
                             k \in src[n] => blocks[n] = <<"separator", <<>>>>
                  ELSE \A n \in BlocksOfKind("separator") : k \notin src[n]
        /\ \A n \in BlocksOfKind("separator") :
              \E k \in 1..Len(lines) : outside[k] /\ src[n] = {k}
        /\ \A k \in 1..Len(lines) :
              (outside[k] /\ Trimmed(lines[k]) = <<"-", "-">>) =>
                  \E n \in BlocksOfKind("para") : k \in src[n]

\* a separator from a hyphen line with whitespace around it, and a line of
\* two hyphens inside a paragraph
C7_Witness ==
    /\ Parsed
    /\ \E n \in BlocksOfKind("separator") :
          \E k \in src[n] : Len(lines[k]) > Len(Trimmed(lines[k]))
    /\ \E k \in 1..Len(lines) :
          /\ lines[k] = <<"-", "-">>
          /\ \E n \in BlocksOfKind("para") : k \in src[n] /\ Cardinality(src[n]) >= 2

(***************************************************************************)
(* C3: main returns 2 whenever the argument count is wrong, whether or not *)
(* the input exists; returns 1 whenever the count is right and the input   *)
(* does not exist; returns 0 only after build_pdf has completed; and in    *)
(* both error outcomes nothing else has happened: no directory created, no *)
(* font registered, no input read, no output written.                      *)
(***************************************************************************)
NoProcessing ==
    /\ ~dir_created
    /\ font_registry = {}
    /\ register_calls = 0
    /\ read_calls = 0
    /\ build_calls = 0
    /\ blocks = <<>>
    /\ story = <<>>

\* C3: main returns 2 iff the argument count is wrong, 1 iff the count is right
\* and the input is missing, 0 only after build_pdf; the error exits process nothing
C3_ExitCodes ==
    /\ ret # <<>> => pc = "exit"
    /\ argc # 3 =>
          /\ pc \in {"main", "exit"}
          /\ pc = "exit" => ret = <<2>>
          /\ NoProcessing
    /\ (argc = 3 /\ ~input_exists) =>
          /\ pc \in {"main", "exit"}
          /\ pc = "exit" => ret = <<1>>
          /\ NoProcessing
    /\ ret = <<2>> => argc # 3
    /\ ret = <<1>> => (argc = 3 /\ ~input_exists)
    /\ ret = <<0>> => (build_calls = 1 /\ bi = Len(blocks) /\ dir_created)

\* too many arguments although the input exists: the usage error wins
C3_Witness ==
    /\ pc = "exit"
    /\ ret = <<2>>
    /\ argc > 3
    /\ input_exists
    /\ stdout = <<"Usage">>

(***************************************************************************)
(* C8: the render loop maps the blocks to story in block order: a heading  *)
(* gives one element (H1 for level 1, H2 for level 2, H3 for level >= 3),  *)
(* a paragraph one body element, a list of k items k bulleted body         *)
(* elements in item order and then one spacer, a code block one            *)
(* preformatted element if its content is non-empty and none if empty, a   *)
(* separator one spacer; so the length of story is the sum of the counts.  *)
(***************************************************************************)
ElementCount(block) ==
    CASE block[1] = "heading"   -> 1
      [] block[1] = "para"      -> 1
      [] block[1] = "list"      -> Len(block[2]) + 1
      [] block[1] = "code"      -> IF block[2] = <<>> THEN 0 ELSE 1
      [] block[1] = "separator" -> 1

\* the number of elements the blocks before blocks[n] account for
RECURSIVE ElementsBefore(_)
ElementsBefore(n) ==
    IF n <= 1 THEN 0 ELSE ElementsBefore(n - 1) + ElementCount(blocks[n - 1])

ElementsOf(n) ==
    LET block == blocks[n]
        first == ElementsBefore(n) + 1
    IN  CASE block[1] = "heading" ->
                /\ story[first][1] = "Paragraph"
                /\ story[first][3] = (IF block[2] = 1 THEN "H1RU"
                                      ELSE IF block[2] = 2 THEN "H2RU" ELSE "H3RU")
          [] block[1] = "para" ->
                /\ story[first][1] = "Paragraph"
                /\ story[first][3] = "BodyRU"
          [] block[1] = "list" ->
                /\ \A k \in 1..Len(block[2]) :
                      /\ story[first + k - 1][1] = "Paragraph"
                      /\ story[first + k - 1][3] = "BodyRU"
                      /\ story[first + k - 1][2] =
                            <<BULLET, " ">> \o drop_backticks(escape(block[2][k]))
                /\ story[first + Len(block[2])][1] = "Spacer"
          [] block[1] = "code" ->
                block[2] # <<>> => story[first] = <<"Preformatted", block[2], "CodeRU">>
          [] block[1] = "separator" ->
                story[first][1] = "Spacer"

\* C8: story is, in block order, the claimed elements of the blocks rendered
\* so far, and its length is the sum of their counts
C8_StoryFollowsBlocks ==
    pc \in {"render", "built"} =>
        /\ Len(story) = ElementsBefore(bi + 1)
        /\ \A n \in 1..bi : ElementsOf(n)

\* rendering is over for a two-item list followed by an empty code block
C8_Witness ==
    /\ pc = "built"
    /\ Len(blocks) = 2
    /\ blocks[1][1] = "list" /\ Len(blocks[1][2]) = 2
    /\ blocks[2] = <<"code", <<>>>>
    /\ Len(story) = 3

(***************************************************************************)
(* C9: parse_markdown has no rejection path and always terminates: the     *)
(* cursor i never decreases and strictly increases in every iteration of   *)
(* the outer loop, so the loop runs at most once per line; it ends with i  *)
(* equal to the number of lines, and the block list is returned without an *)
(* error being raised.                                                     *)
(***************************************************************************)
C9_Bounded ==
    /\ i <= Len(lines)
    /\ iterations <= i
    /\ pc = "parse" => ret = <<>>
    /\ pc \in {"render", "built"} => i = Len(lines)

\* C9: the scan never raises, i never decreases and grows in every iteration,
\* so there is at most one iteration per line, and the loop ends with
\* i = len(lines) and returns the blocks
C9_ForwardScan ==
    /\ [](C9_Bounded)
    /\ [][i' >= i]_vars
    /\ [][pc = "parse" => pc' \in {"parse", "render"}]_vars
    /\ [][(pc = "parse" /\ pc' = "parse") => (iterations' = iterations + 1 /\ i' > i)]_vars
    /\ [][(pc = "parse" /\ pc' = "render") => (i = Len(lines) /\ blocks' = blocks)]_vars

\* the scan of a file of MaxLines lines has ended
C9_Witness ==
    /\ pc = "render"
    /\ Len(lines) = MaxLines
    /\ i = Len(lines)
    /\ iterations < i
    /\ Len(blocks) >= 2

(***************************************************************************)
(* C10: the pipeline steps happen in one fixed order, none repeated: fonts *)
(* are registered exactly once and before any block is rendered; the input *)
(* is read and fully parsed before rendering; rendering is complete before *)
(* the output file is written; any failure aborts the run, so when font    *)
(* registration or the read fails no output file is written and the        *)
(* success line is not printed.                                            *)
(***************************************************************************)
StepRank ==
    [main |-> 0, build_pdf |-> 1, read |-> 2, parse_enter |-> 3, parse |-> 4,
     render |-> 5, built |-> 6, exit |-> 7, raised |-> 7]

SuccessPrinted == \E k \in 1..Len(stdout) : stdout[k] = "Generated"

C10_Order ==
    /\ register_calls <= 1
    /\ read_calls <= 1
    /\ build_calls <= 1
    /\ (pc \in {"render", "built"} \/ bi > 0 \/ story # <<>>) =>
          /\ register_calls = 1
          /\ font_registry = {FONTS[k] : k \in 1..3}
          /\ read_calls = 1
          /\ lines = splitlines(md_text)
          /\ i = Len(lines)
    /\ build_calls > 0 => bi = Len(blocks)
    /\ SuccessPrinted => build_calls = 1
    /\ pc = "raised" =>
          /\ build_calls = 0
          /\ ~SuccessPrinted
          /\ ret = <<>>
          /\ ~ENABLED Next
    /\ fonts_present < 3 =>
          /\ read_calls = 0
          /\ bi = 0 /\ story = <<>>
          /\ build_calls = 0
          /\ ~SuccessPrinted

\* C10: register_fonts, read_text, parse, render and doc.build happen once each
\* and in this order, and a failure before doc.build ends the run with no
\* output file and no success line
C10_FixedPipeline == [](C10_Order) /\ [][StepRank[pc'] >= StepRank[pc]]_vars

\* the second font file is missing: the run stopped in register_fonts
C10_Witness ==
    /\ pc = "raised"
    /\ fonts_present = 1
    /\ register_calls = 1
    /\ font_registry = {FONTS[1]}
    /\ dir_created

====
